---- MODULE Spec2Model ----
(***************************************************************************)
(* Model of the host shell of MIDIVisualizer (src/src/main.cpp): the      *)
(* startup sequence of main(), the display/interaction loop, and          *)
(* performAction(), which applies a SystemAction returned by              *)
(* Renderer::draw to the GLFW window.                                     *)
(*                                                                         *)
(* The GLFW window is the record `window`; the glfw* operators below are  *)
(* the calls main.cpp makes on it.  `frame` is the glm::ivec4 of main():  *)
(* frame[1..4] here are frame[0..3] in the source (x, y, width, height).  *)
(***************************************************************************)
EXTENDS Integers, Sequences, FiniteSets, TLC

(***************************************************************************)
(* Bounds of the model.                                                    *)
(***************************************************************************)
\* Window positions range over 0..MaxX by 0..MaxY.
MaxX == 1
MaxY == 0
\* Width and height of the primary monitor's video mode (mode->width, mode->height).
DisplayW == 2
DisplayH == 1

(***************************************************************************)
(* Values.                                                                 *)
(***************************************************************************)
Min(a, b) == IF a < b THEN a ELSE b

Xs == 0..MaxX
Ys == 0..MaxY
Widths    == 1..DisplayW
Heights   == 1..DisplayH

\* glm::ivec4 frame(0), main.cpp line 196.
ZeroFrame == <<0, 0, 0, 0>>

\* SystemAction values that Renderer::draw can return.  RESIZE carries the
\* requested size in data[0], data[1]; a request can exceed the display.
ActionTypes == {"NONE", "FULLSCREEN", "RESIZE", "FIX_SIZE", "FREE_SIZE", "QUIT", "UNKNOWN"}
NoData == <<0, 0>>
Action(t) == [type |-> t, data |-> NoData]
ResizeAction(w, h) == [type |-> "RESIZE", data |-> <<w, h>>]
Actions ==
    {Action(t) : t \in ActionTypes \ {"RESIZE"}}
        \cup {ResizeAction(w, h) : w \in 1..(DisplayW + 1), h \in 1..(DisplayH + 1)}

\* int returned by main() as seen by the parent process (8-bit exit status).
ExitStatus(r) == r % 256

(***************************************************************************)
(* The GLFW window, as used by main.cpp.                                   *)
(***************************************************************************)
\* The window before glfwCreateWindow: default hints (resizable), no monitor.
NoWindow ==
    [x |-> 0, y |-> 0, w |-> 1, h |-> 1, monitor |-> FALSE, iconified |-> FALSE,
     resizable |-> TRUE, swapInterval |-> 0, shouldClose |-> FALSE]

\* glfwCreateWindow(config.windowSize) followed by glfwSetWindowPos(config.windowPos).
glfwCreateWindow(x, y, w, h) ==
    [NoWindow EXCEPT !.x = x, !.y = y, !.w = Min(w, DisplayW), !.h = Min(h, DisplayH)]

\* glfwGetWindowPos(window, &frame[0], &frame[1]).
glfwGetWindowPos(win) == <<win.x, win.y>>

\* glfwGetWindowSize(window, &frame[2], &frame[3]): the client area of a
\* minimized window is empty, and the size is then reported as 0 x 0.
glfwGetWindowSize(win) == IF win.iconified THEN <<0, 0>> ELSE <<win.w, win.h>>

\* The two reads the code always makes together (lines 55-56, 59-60, 74-75, 197-198).
ReadFrame(win) == glfwGetWindowPos(win) \o glfwGetWindowSize(win)

\* glfwSetWindowSize(window, width, height): the size is limited by the display.
glfwSetWindowSize(win, width, height) ==
    [win EXCEPT !.w = Min(width, DisplayW), !.h = Min(height, DisplayH)]

\* glfwSetWindowMonitor(window, monitor, x, y, width, height, rate).  GLFW
\* rejects a width or height <= 0 (GLFW_INVALID_VALUE) and changes nothing.
\* mon = TRUE binds the window to the primary monitor, FALSE is nullptr.
glfwSetWindowMonitor(win, mon, x, y, width, height) ==
    IF width <= 0 \/ height <= 0 THEN win
    ELSE IF mon THEN [win EXCEPT !.monitor = TRUE, !.x = 0, !.y = 0,
                                 !.w = Min(width, DisplayW), !.h = Min(height, DisplayH)]
    ELSE [win EXCEPT !.monitor = FALSE, !.x = x, !.y = y,
                     !.w = Min(width, DisplayW), !.h = Min(height, DisplayH)]

\* glfwGetWindowMonitor(window) != nullptr.
glfwGetWindowMonitor(win) == win.monitor

glfwSwapInterval(win, n) == [win EXCEPT !.swapInterval = n]

\* glfwSetWindowAttrib(window, GLFW_RESIZABLE, value).
glfwSetWindowAttrib(win, value) == [win EXCEPT !.resizable = value]

glfwSetWindowShouldClose(win, value) == [win EXCEPT !.shouldClose = value]

glfwWindowShouldClose(win) == win.shouldClose

(***************************************************************************)
(* performAction(action, window, frame), main.cpp lines 46-92.  Each case  *)
(* of the switch yields the window and the frame after the call.           *)
(***************************************************************************)
Result(win, fr) == [window |-> win, frame |-> fr]

\* A faulty variant of ActFullscreen: entering fullscreen without the backup
\* of lines 59-60.
ActFullscreen_NoBackup(win, fr) ==
    IF glfwGetWindowMonitor(win)
    THEN LET restored == glfwSetWindowMonitor(win, FALSE, fr[1], fr[2], fr[3], fr[4])
         IN  Result(glfwSwapInterval(restored, 1), ReadFrame(restored))
    ELSE LET full == glfwSetWindowMonitor(win, TRUE, 0, 0, DisplayW, DisplayH)
         IN  Result(glfwSwapInterval(full, 1), fr)

\* case SystemAction::FULLSCREEN, lines 48-70.
ActFullscreen(win, fr) ==
    IF glfwGetWindowMonitor(win)
    THEN LET restored == glfwSetWindowMonitor(win, FALSE, fr[1], fr[2], fr[3], fr[4])
         IN  Result(glfwSwapInterval(restored, 1), ReadFrame(restored))
    ELSE LET backup == ReadFrame(win)
             full   == glfwSetWindowMonitor(win, TRUE, 0, 0, DisplayW, DisplayH)
         IN  Result(glfwSwapInterval(full, 1), backup)

\* A faulty variant of ActResize: the frame takes the requested size instead
\* of the size read back on line 75.
ActResize_KeepsRequest(action, win, fr) ==
    LET resized == glfwSetWindowSize(win, action.data[1], action.data[2])
    IN  Result(resized, glfwGetWindowPos(resized) \o action.data)

\* case SystemAction::RESIZE, lines 71-76.
ActResize(action, win, fr) ==
    LET resized == glfwSetWindowSize(win, action.data[1], action.data[2])
    IN  Result(resized, ReadFrame(resized))

\* A faulty variant of ActFixSize: the frame is read back from the window as
\* RESIZE does.
ActFixSize_ReadsFrame(win, fr) ==
    Result(glfwSwapInterval(glfwSetWindowAttrib(win, FALSE), 0), ReadFrame(win))

\* case SystemAction::FIX_SIZE, lines 77-81.
ActFixSize(win, fr) ==
    Result(glfwSwapInterval(glfwSetWindowAttrib(win, FALSE), 0), fr)

\* A faulty variant of ActFreeSize: V-sync is not restored (line 85 missing).
ActFreeSize_NoVsync(win, fr) ==
    Result(glfwSetWindowAttrib(win, TRUE), fr)

\* case SystemAction::FREE_SIZE, lines 82-86.
ActFreeSize(win, fr) ==
    Result(glfwSwapInterval(glfwSetWindowAttrib(win, TRUE), 1), fr)

\* A faulty variant of ActQuit: the close flag is not set (line 88 missing).
ActQuit_NoClose(win, fr) ==
    Result(win, fr)

\* case SystemAction::QUIT, lines 87-88 (falls through to default: break).
ActQuit(win, fr) ==
    Result(glfwSetWindowShouldClose(win, TRUE), fr)

performAction(action, win, fr) ==
    CASE action.type = "FULLSCREEN" -> ActFullscreen(win, fr)
      [] action.type = "RESIZE"     -> ActResize(action, win, fr)
      [] action.type = "FIX_SIZE"   -> ActFixSize(win, fr)
      [] action.type = "FREE_SIZE"  -> ActFreeSize(win, fr)
      [] action.type = "QUIT"       -> ActQuit(win, fr)
      [] OTHER                      -> Result(win, fr)

(***************************************************************************)
(* main(), lines 96-256.                                                   *)
(***************************************************************************)
\* A faulty variant of ReturnValue: an OpenGL failure returns 2 like a
\* window failure.
ReturnValue_SameCode(why) ==
    CASE why = "glfw_init"  -> 2
      [] why = "help"       -> 0
      [] why = "version"    -> 0
      [] why = "window"     -> 2
      [] why = "gl3w_init"  -> 2
      [] why = "gl_version" -> 2
      [] OTHER              -> 0

\* The value of each return statement of main (lines 103, 112, 117, 135,
\* 147, 151, 255), by the reason main returns.
ReturnValue(why) ==
    CASE why = "glfw_init"  -> 2
      [] why = "help"       -> 0
      [] why = "version"    -> 0
      [] why = "window"     -> 2
      [] why = "gl3w_init"  -> -1
      [] why = "gl_version" -> -1
      [] OTHER              -> 0

VARIABLES
    pc,            \* position of main()
    glfw,          \* "off", "on" (after glfwInit), "terminated" (after glfwTerminate)
    windowState,   \* "none", "open" (after glfwCreateWindow), "destroyed"
    window,        \* the GLFW window
    resources,     \* ResourcesManager::loadResources() has run
    renderer,      \* "none", "constructed", "cleaned" (after renderer.clean())
    frame,         \* glm::ivec4 frame of main()
    export,        \* "none", "ok", "failed": directRecord and the result of startDirectRecording
    action,        \* SystemAction action of the loop body
    outcome,       \* why main returned ("running" until it does)
    exitCode,      \* exit status of the process once pc = "exited"
    \* Observations of the run (not program state):
    tickLog,       \* steps of the current loop iteration, in order
    applied,       \* argument of the performAction call of the current iteration
    everDrew,      \* renderer.draw has been called
    last,          \* the latest performAction call: "NOCALL" before the first one,
                   \* "FULLSCREEN" for a first toggle with the window untouched since,
                   \* "FIX_SIZE", or "OTHER"
    pair,          \* the call of this iteration and the call before it:
                   \* "toggle_toggle", "lock_unlock" or "none"
    frame0,        \* frame before the first FULLSCREEN of a pair
    reported0,     \* position and size reported before the first FULLSCREEN of a pair
    firstEnter,    \* that first FULLSCREEN found the window not fullscreen
    lockPrev,      \* resizable attribute before the FIX_SIZE of a pair
    enterGeom,     \* position and size reported just before entering fullscreen
    quitDrawn,     \* draw has returned QUIT
    swapsAfterQuit, \* buffer swaps since draw returned QUIT
    drawsAfterQuit, \* draw calls since draw returned QUIT
    locked,         \* FIX_SIZE has been applied and no FREE_SIZE since
    everPolled,     \* glfwPollEvents has been called
    event,          \* the input event of the latest glfwPollEvents and who received it
    startLog        \* startup steps of main done so far, in order

progVars == <<pc, glfw, windowState, window, resources, renderer, frame, export,
              action, outcome, exitCode>>
obsVars  == <<tickLog, applied, everDrew, last, pair, frame0, reported0, firstEnter,
              lockPrev, enterGeom, quitDrawn, swapsAfterQuit, drawsAfterQuit>>
callVars == <<last, pair, frame0, reported0, firstEnter, lockPrev, enterGeom, locked>>
quitVars == <<quitDrawn, swapsAfterQuit, drawsAfterQuit>>
pollVars == <<everPolled, event>>
vars == <<progVars, obsVars, locked, pollVars, startLog>>

\* Cap of the counters kept after QUIT.
MaxCount == 2
Inc(n) == Min(n + 1, MaxCount)

NoCall == [type |-> "NOCALL", data |-> NoData]

(***************************************************************************)
(* The callbacks, lines 20-42, and their registration, lines 188-192.      *)
(* A callback is described by the Renderer method it calls ("none" when it *)
(* calls none) and by whether it hands the event to ImGui.                 *)
(***************************************************************************)
Delivery(method, toImGui) == [renderer |-> method, imgui |-> toImGui]

\* Lines 20-23: renderer->resize(width, height).
resize_callback == Delivery("resize", FALSE)

\* Lines 25-29: renderer->rescale(xscale).
rescale_callback == Delivery("rescale", FALSE)

\* A faulty variant of key_callback: the key reaches the renderer whatever
\* ImGui wants.
key_callback_Always(wantCaptureKeyboard) == Delivery("keyPressed", TRUE)

\* Lines 31-38: renderer->keyPressed unless ImGui wants the keyboard, then
\* ImGui_ImplGlfw_KeyCallback.
key_callback(wantCaptureKeyboard) ==
    Delivery(IF ~wantCaptureKeyboard THEN "keyPressed" ELSE "none", TRUE)

\* Lines 40-42: ImGui_ImplGlfw_ScrollCallback only.
scroll_callback == Delivery("none", TRUE)

\* The event kinds main registers one of these callbacks for: framebuffer
\* size (line 189), key (190), scroll (191).  No call registers
\* rescale_callback for the content scale.  (Line 192 registers ImGui's own
\* character callback, which none of the callbacks above takes part in.)
Registered == {"fbsize", "key", "scroll"}

CallbackFor(kind, wantCaptureKeyboard) ==
    CASE kind = "fbsize" -> resize_callback
      [] kind = "scale"  -> rescale_callback
      [] kind = "key"    -> key_callback(wantCaptureKeyboard)
      [] OTHER           -> scroll_callback

\* What glfwPollEvents does with an event of a kind: it calls the callback
\* registered for it, if any.
Dispatch(kind, wantCaptureKeyboard) ==
    [kind |-> kind, capture |-> wantCaptureKeyboard] @@
        (IF kind \in Registered THEN CallbackFor(kind, wantCaptureKeyboard)
         ELSE Delivery("none", FALSE))

NoEvent == [kind |-> "none", capture |-> FALSE] @@ Delivery("none", FALSE)

\* A faulty variant of AfterStartup: the renderer is constructed before the
\* resources are loaded.
AfterStartup_RendererFirst(p) ==
    CASE p = "gl3w"       -> "renderer"
      [] p = "renderer"   -> "resources"
      [] p = "resources"  -> "read_frame"
      [] OTHER            -> "direct_export"

\* The statement that follows each startup step of lines 145-205: OpenGL
\* loading (145-152), loadResources (160), the renderer (162-193), the
\* initial frame and resizeAndRescale (196-205), then the direct export.
AfterStartup(p) ==
    CASE p = "gl3w"       -> "resources"
      [] p = "resources"  -> "renderer"
      [] p = "renderer"   -> "read_frame"
      [] OTHER            -> "direct_export"

Init ==
    /\ pc = "glfw_init"
    /\ glfw = "off"
    /\ windowState = "none"
    /\ window = NoWindow
    /\ resources = FALSE
    /\ renderer = "none"
    /\ frame = ZeroFrame
    /\ export = "none"
    /\ action = NoCall
    /\ outcome = "running"
    /\ exitCode = 0
    /\ tickLog = <<>>
    /\ applied = NoCall
    /\ everDrew = FALSE
    /\ last = "NOCALL"
    /\ pair = "none"
    /\ frame0 = ZeroFrame
    /\ reported0 = ZeroFrame
    /\ firstEnter = FALSE
    /\ lockPrev = TRUE
    /\ enterGeom = ZeroFrame
    /\ quitDrawn = FALSE
    /\ swapsAfterQuit = 0
    /\ drawsAfterQuit = 0
    /\ locked = FALSE
    /\ everPolled = FALSE
    /\ event = NoEvent
    /\ startLog = <<>>

\* A return statement of main.
Return(why) ==
    /\ pc' = "exited"
    /\ outcome' = why
    /\ exitCode' = ExitStatus(ReturnValue(why))

\* A call performAction(a, window, frame): the window and frame it leaves,
\* and what the call is remembered by.
Call(a) ==
    LET r      == performAction(a, window, frame)
        toggle == a.type = "FULLSCREEN"
        second == toggle /\ last = "FULLSCREEN"
        lock   == a.type = "FIX_SIZE"
        unlock == a.type = "FREE_SIZE" /\ last = "FIX_SIZE"
    IN  /\ window' = r.window
        /\ frame' = r.frame
        /\ last' = IF toggle /\ ~second THEN "FULLSCREEN"
                   ELSE IF lock THEN "FIX_SIZE" ELSE "OTHER"
        /\ pair' = IF second THEN "toggle_toggle"
                   ELSE IF unlock THEN "lock_unlock" ELSE "none"
        /\ frame0' = IF ~toggle THEN ZeroFrame
                     ELSE IF second THEN frame0 ELSE frame
        /\ reported0' = IF ~toggle THEN ZeroFrame
                        ELSE IF second THEN reported0 ELSE ReadFrame(window)
        /\ firstEnter' = IF ~toggle THEN FALSE
                         ELSE IF second THEN firstEnter ELSE ~window.monitor
        /\ lockPrev' = IF lock THEN window.resizable
                       ELSE IF unlock THEN lockPrev ELSE TRUE
        /\ enterGeom' = IF a.type = "FULLSCREEN" /\ ~window.monitor THEN ReadFrame(window)
                        ELSE IF r.window.monitor THEN enterGeom ELSE ZeroFrame
        /\ locked' = IF lock THEN TRUE
                     ELSE IF a.type = "FREE_SIZE" THEN FALSE ELSE locked

\* Lines 101-104: glfwInit().
GlfwInitFails ==
    /\ pc = "glfw_init"
    /\ Return("glfw_init")
    /\ UNCHANGED <<glfw, windowState, window, resources, renderer, frame, export, action>>
    /\ UNCHANGED obsVars
    /\ UNCHANGED <<locked, pollVars, startLog>>

GlfwInit ==
    /\ pc = "glfw_init"
    /\ glfw' = "on"
    /\ pc' = "config"
    /\ UNCHANGED <<windowState, window, resources, renderer, frame, export, action,
                   outcome, exitCode>>
    /\ UNCHANGED obsVars
    /\ UNCHANGED <<locked, pollVars>>
    /\ startLog' = Append(startLog, "glfwInit")

\* Lines 107-118: the configuration asks for the help or the version.
ShowHelp ==
    /\ pc = "config"
    /\ glfw' = "terminated"
    /\ Return("help")
    /\ UNCHANGED <<windowState, window, resources, renderer, frame, export, action>>
    /\ UNCHANGED obsVars
    /\ UNCHANGED <<locked, pollVars, startLog>>

ShowVersion ==
    /\ pc = "config"
    /\ glfw' = "terminated"
    /\ Return("version")
    /\ UNCHANGED <<windowState, window, resources, renderer, frame, export, action>>
    /\ UNCHANGED obsVars
    /\ UNCHANGED <<locked, pollVars, startLog>>

\* Lines 121-136: glfwCreateWindow fails.
CreateWindowFails ==
    /\ pc = "config"
    /\ glfw' = "terminated"
    /\ Return("window")
    /\ UNCHANGED <<windowState, window, resources, renderer, frame, export, action>>
    /\ UNCHANGED obsVars
    /\ UNCHANGED <<locked, pollVars, startLog>>

\* Lines 121-143: the window is created at config.windowSize and moved to
\* config.windowPos, and its context made current.
CreateWindow ==
    /\ pc = "config"
    /\ \E x \in Xs, y \in Ys, w \in 1..(DisplayW + 1), h \in 1..(DisplayH + 1) :
           window' = glfwCreateWindow(x, y, w, h)
    /\ windowState' = "open"
    /\ pc' = "gl3w"
    /\ UNCHANGED <<glfw, resources, renderer, frame, export, action, outcome, exitCode>>
    /\ UNCHANGED obsVars
    /\ UNCHANGED <<locked, pollVars>>
    /\ startLog' = Append(startLog, "context")

\* Lines 145-148: gl3wInit() fails.
Gl3wInitFails ==
    /\ pc = "gl3w"
    /\ Return("gl3w_init")
    /\ UNCHANGED <<glfw, windowState, window, resources, renderer, frame, export, action>>
    /\ UNCHANGED obsVars
    /\ UNCHANGED <<locked, pollVars, startLog>>

\* Lines 149-152: OpenGL 3.2 is not supported.
GlVersionUnsupported ==
    /\ pc = "gl3w"
    /\ Return("gl_version")
    /\ UNCHANGED <<glfw, windowState, window, resources, renderer, frame, export, action>>
    /\ UNCHANGED obsVars
    /\ UNCHANGED <<locked, pollVars, startLog>>

Gl3wInit ==
    /\ pc = "gl3w"
    /\ pc' = AfterStartup("gl3w")
    /\ UNCHANGED <<glfw, windowState, window, resources, renderer, frame, export, action,
                   outcome, exitCode>>
    /\ UNCHANGED obsVars
    /\ UNCHANGED <<locked, pollVars>>
    /\ startLog' = Append(startLog, "gl3w")

\* Line 160: ResourcesManager::loadResources().
LoadResources ==
    /\ pc = "resources"
    /\ resources' = TRUE
    /\ pc' = AfterStartup("resources")
    /\ UNCHANGED <<glfw, windowState, window, renderer, frame, export, action,
                   outcome, exitCode>>
    /\ UNCHANGED obsVars
    /\ UNCHANGED <<locked, pollVars>>
    /\ startLog' = Append(startLog, "resources")

\* Lines 162-193: the renderer is constructed and configured, the callbacks
\* are registered, and V-sync is enabled.
CreateRenderer ==
    /\ pc = "renderer"
    /\ renderer' = "constructed"
    /\ window' = glfwSwapInterval(window, 1)
    /\ pc' = AfterStartup("renderer")
    /\ UNCHANGED <<glfw, windowState, resources, frame, export, action, outcome, exitCode>>
    /\ UNCHANGED obsVars
    /\ UNCHANGED <<locked, pollVars>>
    /\ startLog' = Append(startLog, "renderer")

\* Lines 196-205: the frame is read from the window and the framebuffer size
\* and scale are passed to the renderer.
ReadInitialFrame ==
    /\ pc = "read_frame"
    /\ frame' = ReadFrame(window)
    /\ pc' = AfterStartup("read_frame")
    /\ UNCHANGED <<glfw, windowState, window, resources, renderer, export, action,
                   outcome, exitCode>>
    /\ UNCHANGED obsVars
    /\ UNCHANGED <<locked, pollVars>>
    /\ startLog' = startLog \o <<"frame", "resizeAndRescale">>

\* Lines 208-209: no direct export is requested.
NoDirectExport ==
    /\ pc = "direct_export"
    /\ pc' = "fullscreen"
    /\ UNCHANGED <<glfw, windowState, window, resources, renderer, frame, export, action,
                   outcome, exitCode>>
    /\ UNCHANGED obsVars
    /\ UNCHANGED <<locked, pollVars, startLog>>

\* Lines 208-215: startDirectRecording succeeds.
DirectExportStarts ==
    /\ pc = "direct_export"
    /\ export' = "ok"
    /\ pc' = "fullscreen"
    /\ UNCHANGED <<glfw, windowState, window, resources, renderer, frame, action,
                   outcome, exitCode>>
    /\ UNCHANGED obsVars
    /\ UNCHANGED <<locked, pollVars, startLog>>

\* A faulty variant of ExportFailureAction: the failure is ignored.
ExportFailureAction_None == Action("NONE")

\* Line 213: the action applied when startDirectRecording fails.
ExportFailureAction == Action("QUIT")

\* Lines 208-215: startDirectRecording fails, performAction(QUIT).
DirectExportFails ==
    /\ pc = "direct_export"
    /\ export' = "failed"
    /\ Call(ExportFailureAction)
    /\ pc' = "fullscreen"
    /\ UNCHANGED <<glfw, windowState, resources, renderer, action, outcome, exitCode>>
    /\ UNCHANGED <<tickLog, applied, everDrew>>
    /\ UNCHANGED quitVars
    /\ UNCHANGED <<pollVars, startLog>>

\* Lines 217-219: config.fullscreen is set, performAction(FULLSCREEN).
StartFullscreen ==
    /\ pc = "fullscreen"
    /\ Call(Action("FULLSCREEN"))
    /\ pc' = "loop"
    /\ UNCHANGED <<glfw, windowState, resources, renderer, export, action, outcome, exitCode>>
    /\ UNCHANGED <<tickLog, applied, everDrew>>
    /\ UNCHANGED quitVars
    /\ UNCHANGED <<pollVars, startLog>>

StartWindowed ==
    /\ pc = "fullscreen"
    /\ pc' = "loop"
    /\ UNCHANGED <<glfw, windowState, window, resources, renderer, frame, export, action,
                   outcome, exitCode>>
    /\ UNCHANGED obsVars
    /\ UNCHANGED <<locked, pollVars, startLog>>

(***************************************************************************)
(* The display/interaction loop, lines 222-242.                            *)
(***************************************************************************)
\* A faulty variant of NextInTick: the action returned by draw is dropped.
NextInTick_SkipsPerform(p) ==
    CASE p = "draw"    -> "render"
      [] p = "perform" -> "render"
      [] p = "render"  -> "swap"
      [] p = "swap"    -> "poll"
      [] OTHER         -> "loop"

\* A faulty variant of NextInTick: events are polled before the buffers are
\* swapped.
NextInTick_PollBeforeSwap(p) ==
    CASE p = "draw"    -> "perform"
      [] p = "perform" -> "render"
      [] p = "render"  -> "poll"
      [] p = "poll"    -> "swap"
      [] OTHER         -> "loop"

\* The statement that follows each statement of the loop body: draw (228),
\* performAction (231), interface rendering (234-235), glfwSwapBuffers (238),
\* glfwPollEvents (240), then the loop condition again.
NextInTick(p) ==
    CASE p = "draw"    -> "perform"
      [] p = "perform" -> "render"
      [] p = "render"  -> "swap"
      [] p = "swap"    -> "poll"
      [] OTHER         -> "loop"

\* A faulty variant of LoopContinues: the close flag is not looked at.
LoopContinues_Always(win) == TRUE

\* Line 222: while (!glfwWindowShouldClose(window)).
LoopContinues(win) == ~glfwWindowShouldClose(win)

Step(p) ==
    /\ pc = p
    /\ pc' = NextInTick(p)
    /\ tickLog' = Append(tickLog, p)

\* Line 222, condition true; lines 223-225 begin a new interface frame.
LoopEnter ==
    /\ pc = "loop"
    /\ LoopContinues(window)
    /\ pc' = "draw"
    /\ tickLog' = <<>>
    /\ action' = NoCall
    /\ applied' = NoCall
    /\ pair' = "none"
    /\ IF last = "FULLSCREEN"
       THEN UNCHANGED <<frame0, reported0, firstEnter>>
       ELSE frame0' = ZeroFrame /\ reported0' = ZeroFrame /\ firstEnter' = FALSE
    /\ lockPrev' = IF last = "FIX_SIZE" THEN lockPrev ELSE TRUE
    /\ UNCHANGED <<glfw, windowState, window, resources, renderer, frame, export,
                   outcome, exitCode>>
    /\ UNCHANGED <<everDrew, last, enterGeom, locked>>
    /\ UNCHANGED quitVars
    /\ event' = NoEvent
    /\ UNCHANGED <<everPolled, startLog>>

\* Line 222, condition false.
LoopExit ==
    /\ pc = "loop"
    /\ ~LoopContinues(window)
    /\ pc' = "cleanup"
    /\ UNCHANGED <<glfw, windowState, window, resources, renderer, frame, export, action,
                   outcome, exitCode>>
    /\ UNCHANGED obsVars
    /\ UNCHANGED <<locked, pollVars, startLog>>

\* Line 228: renderer.draw returns the action of this iteration.
Draw ==
    /\ Step("draw")
    /\ \E a \in Actions : 
           /\ action' = a
           /\ quitDrawn' = (quitDrawn \/ a.type = "QUIT")
    /\ everDrew' = TRUE
    /\ drawsAfterQuit' = IF quitDrawn THEN Inc(drawsAfterQuit) ELSE drawsAfterQuit
    /\ UNCHANGED <<glfw, windowState, window, resources, renderer, frame, export,
                   outcome, exitCode>>
    /\ UNCHANGED <<applied, swapsAfterQuit>>
    /\ UNCHANGED callVars
    /\ UNCHANGED <<pollVars, startLog>>

\* Line 231: performAction(action, window, frame).
Perform ==
    /\ Step("perform")
    /\ Call(action)
    /\ applied' = action
    /\ UNCHANGED <<glfw, windowState, resources, renderer, export, action, outcome, exitCode>>
    /\ UNCHANGED <<everDrew>>
    /\ UNCHANGED quitVars
    /\ UNCHANGED <<pollVars, startLog>>

\* Lines 234-235: the interface is rendered.
Render ==
    /\ Step("render")
    /\ UNCHANGED <<glfw, windowState, window, resources, renderer, frame, export, action,
                   outcome, exitCode>>
    /\ UNCHANGED <<applied, everDrew>>
    /\ UNCHANGED callVars
    /\ UNCHANGED quitVars
    /\ UNCHANGED <<pollVars, startLog>>

\* Line 238: glfwSwapBuffers(window).
Swap ==
    /\ Step("swap")
    /\ swapsAfterQuit' = IF quitDrawn THEN Inc(swapsAfterQuit) ELSE swapsAfterQuit
    /\ UNCHANGED <<glfw, windowState, window, resources, renderer, frame, export, action,
                   outcome, exitCode>>
    /\ UNCHANGED <<applied, everDrew, quitDrawn, drawsAfterQuit>>
    /\ UNCHANGED callVars
    /\ UNCHANGED <<pollVars, startLog>>

\* Line 240: glfwPollEvents().  What the window system did to the window
\* since the previous poll becomes visible here: win is the window after it,
\* changed tells whether its position, size or minimized state changed.
Poll(win, changed, ev) ==
    /\ Step("poll")
    /\ window' = win
    /\ everPolled' = TRUE
    /\ event' = ev
    /\ UNCHANGED <<locked, startLog>>
    /\ last' = IF changed /\ last = "FULLSCREEN" THEN "OTHER" ELSE last
    /\ UNCHANGED <<glfw, windowState, resources, renderer, frame, export, action,
                   outcome, exitCode>>
    /\ UNCHANGED <<applied, everDrew>>
    /\ UNCHANGED <<pair, frame0, reported0, firstEnter, lockPrev, enterGeom>>
    /\ UNCHANGED quitVars

PollNothing == Poll(window, FALSE, NoEvent)

\* The user moves the window (not possible while fullscreen or minimized).
PollMoved ==
    /\ ~window.monitor /\ ~window.iconified
    /\ \E x \in Xs, y \in Ys :
           /\ <<x, y>> # <<window.x, window.y>>
           /\ Poll([window EXCEPT !.x = x, !.y = y], TRUE, NoEvent)

\* The user resizes the window by its border (only a resizable window); the
\* framebuffer size changes with it.
PollResized ==
    /\ ~window.monitor /\ ~window.iconified /\ window.resizable
    /\ \E w \in Widths, h \in Heights :
           /\ <<w, h>> # <<window.w, window.h>>
           /\ Poll([window EXCEPT !.w = w, !.h = h], TRUE, Dispatch("fbsize", FALSE))

\* The user minimizes the window, or restores it.
PollIconified ==
    /\ ~window.iconified
    /\ Poll([window EXCEPT !.iconified = TRUE], TRUE, NoEvent)

PollRestored ==
    /\ window.iconified
    /\ Poll([window EXCEPT !.iconified = FALSE], TRUE, NoEvent)

\* The user asks to close the window.
PollCloseRequest ==
    /\ ~window.shouldClose
    /\ Poll([window EXCEPT !.shouldClose = TRUE], FALSE, NoEvent)

\* The framebuffer size changed (after a size request or a fullscreen
\* toggle of performAction took effect, or with the monitor's density).
PollFramebufferSize == Poll(window, FALSE, Dispatch("fbsize", FALSE))

\* The content scale of the window changed (it moved to another monitor).
PollContentScale == Poll(window, FALSE, Dispatch("scale", FALSE))

\* A key was pressed or released; ImGui wants the keyboard or not.
PollKey == \E want \in BOOLEAN : Poll(window, FALSE, Dispatch("key", want))

\* The mouse wheel was scrolled.
PollScroll == Poll(window, FALSE, Dispatch("scroll", FALSE))

(***************************************************************************)
(* Teardown, lines 244-255.                                                *)
(***************************************************************************)
\* Lines 244-248: the interface is shut down and renderer.clean() is called.
Cleanup ==
    /\ pc = "cleanup"
    /\ renderer' = "cleaned"
    /\ pc' = "destroy"
    /\ UNCHANGED <<glfw, windowState, window, resources, frame, export, action,
                   outcome, exitCode>>
    /\ UNCHANGED obsVars
    /\ UNCHANGED <<locked, pollVars, startLog>>

\* Line 251: glfwDestroyWindow(window).
DestroyWindow ==
    /\ pc = "destroy"
    /\ windowState' = "destroyed"
    /\ pc' = "terminate"
    /\ UNCHANGED <<glfw, window, resources, renderer, frame, export, action,
                   outcome, exitCode>>
    /\ UNCHANGED obsVars
    /\ UNCHANGED <<locked, pollVars, startLog>>

\* Lines 254-255: glfwTerminate(); return 0.
Terminate ==
    /\ pc = "terminate"
    /\ glfw' = "terminated"
    /\ Return("normal")
    /\ UNCHANGED <<windowState, window, resources, renderer, frame, export, action>>
    /\ UNCHANGED obsVars
    /\ UNCHANGED <<locked, pollVars, startLog>>

Next ==
    \/ GlfwInitFails \/ GlfwInit
    \/ ShowHelp \/ ShowVersion
    \/ CreateWindowFails \/ CreateWindow
    \/ Gl3wInitFails \/ GlVersionUnsupported \/ Gl3wInit
    \/ LoadResources \/ CreateRenderer \/ ReadInitialFrame
    \/ NoDirectExport \/ DirectExportStarts \/ DirectExportFails
    \/ StartFullscreen \/ StartWindowed
    \/ LoopEnter \/ LoopExit
    \/ Draw \/ Perform \/ Render \/ Swap
    \/ PollNothing \/ PollMoved \/ PollResized \/ PollIconified \/ PollRestored
    \/ PollCloseRequest
    \/ PollFramebufferSize \/ PollContentScale \/ PollKey \/ PollScroll
    \/ Cleanup \/ DestroyWindow \/ Terminate

Spec == Init /\ [][Next]_vars

\* main is one sequential thread: as long as every call it makes returns,
\* the statement it has reached is executed.
SpecLive == Spec /\ WF_vars(Next)

(***************************************************************************)
(* Properties.                                                             *)
(***************************************************************************)
Positive(fr) == fr[3] > 0 /\ fr[4] > 0

\* The performAction call of the current iteration has just returned.
JustApplied(t) == pc = "render" /\ applied.type = t

\* C1: whenever FULLSCREEN is applied to a fullscreen window, the position
\* and size passed to glfwSetWindowMonitor for the restored window (the frame,
\* line 53) are those the window reported just before it entered fullscreen,
\* whatever was applied in between.
C1_RestoreRequestsEnterGeometry ==
    (pc = "perform" /\ action.type = "FULLSCREEN" /\ glfwGetWindowMonitor(window))
        => frame = enterGeom

C3_FramePositive ==
    last # "NOCALL" => Positive(frame)

\* C4: once draw has returned QUIT, exactly one buffer swap follows (the one
\* of the same iteration), the loop condition then fails, and draw is not
\* called again.
C4_QuitPresentsOnce ==
    /\ drawsAfterQuit = 0
    /\ swapsAfterQuit <= 1
    /\ (quitDrawn /\ pc \in {"draw", "perform", "render", "swap"}) => swapsAfterQuit = 0
    /\ (quitDrawn /\ pc = "loop") => ~LoopContinues(window)
    /\ (quitDrawn /\ pc \in {"poll", "loop", "cleanup", "destroy", "terminate", "exited"})
           => swapsAfterQuit = 1

C4_Witness ==
    quitDrawn /\ pc = "exited" /\ swapsAfterQuit = 1 /\ drawsAfterQuit = 0

\* C5: after RESIZE(w, h) the frame is the position and size the window
\* reports after the request, whatever was requested.
C5_ResizeReadsBack ==
    JustApplied("RESIZE") => frame = glfwGetWindowPos(window) \o glfwGetWindowSize(window)

\* A request wider than the display: the frame holds the display width.
C5_Witness ==
    /\ JustApplied("RESIZE")
    /\ applied.data[1] > DisplayW
    /\ frame[3] = DisplayW
    /\ frame[3] # applied.data[1]

\* C6 as stated: FIX_SIZE directly followed by FREE_SIZE leaves the swap
\* interval at 1 and the resizable attribute as it was before the FIX_SIZE.
C6_UnlockRestoresAttribute ==
    pair = "lock_unlock" =>
        /\ window.swapInterval = 1
        /\ window.resizable = lockPrev

\* C6, amended: FIX_SIZE directly followed by FREE_SIZE leaves the swap
\* interval at 1 and the window resizable, which is the attribute's value
\* before the FIX_SIZE only if the window was resizable then.
C6_UnlockMakesResizable ==
    pair = "lock_unlock" =>
        /\ window.swapInterval = 1
        /\ window.resizable
        /\ lockPrev => window.resizable = lockPrev

C6_Witness ==
    pair = "lock_unlock" /\ ~lockPrev /\ window.resizable /\ window.swapInterval = 1

\* C7: when startDirectRecording fails, draw is never called, and main
\* returns only after renderer.clean(), glfwDestroyWindow and glfwTerminate.
C7_ExportFailureQuitsCleanly ==
    export = "failed" =>
        /\ ~everDrew
        /\ pc \notin {"draw", "perform", "render", "swap", "poll"}
        /\ pc = "exited" =>
               /\ renderer = "cleaned"
               /\ windowState = "destroyed"
               /\ glfw = "terminated"

\* The failure with config.fullscreen set: the window went fullscreen and
\* main still returned after the teardown.
C7_Witness ==
    /\ export = "failed"
    /\ pc = "exited"
    /\ window.monitor
    /\ ~everDrew
    /\ renderer = "cleaned"

\* C8: when startDirectRecording succeeds, the window is non-resizable and
\* the swap interval is 0 when the first loop iteration begins.
C8_ExportLocksBeforeLoop ==
    (export = "ok" /\ pc = "loop" /\ ~everDrew) =>
        /\ window.swapInterval = 0
        /\ ~window.resizable

\* C9: a startup failure exits with a non-zero status, 2 for glfwInit or
\* the window and another one for OpenGL, with no renderer constructed and
\* no draw; help, version and a normal run exit with 0.
Failures == {"glfw_init", "window", "gl3w_init", "gl_version"}

C9_ExitCodes ==
    pc = "exited" =>
        /\ outcome \in {"glfw_init", "window"} => exitCode = 2
        /\ outcome \in {"gl3w_init", "gl_version"} => exitCode \notin {0, 2}
        /\ outcome \in {"help", "version", "normal"} => exitCode = 0
        /\ outcome \in Failures => (renderer = "none" /\ ~everDrew /\ tickLog = <<>>)

C9_Witness ==
    pc = "exited" /\ outcome = "gl3w_init" /\ exitCode = 255 /\ renderer = "none"

\* C10: in every loop iteration draw returns one action and performAction
\* is called exactly once, with that action, after draw and before the
\* buffer swap; it is not called during draw or during glfwPollEvents.
Count(log, p) == Cardinality({i \in 1..Len(log) : log[i] = p})
Before(log, p, q) == \E i, j \in 1..Len(log) : i < j /\ log[i] = p /\ log[j] = q

C10_OneActionPerTick ==
    /\ Count(tickLog, "draw") <= 1
    /\ Count(tickLog, "perform") <= 1
    /\ tickLog = <<"draw">> => (action \in Actions /\ applied = NoCall)
    /\ Count(tickLog, "perform") = 1 =>
           (Before(tickLog, "draw", "perform") /\ applied = action /\ action \in Actions)
    /\ Count(tickLog, "swap") >= 1 => Before(tickLog, "perform", "swap")
    /\ Count(tickLog, "poll") >= 1 =>
           (Count(tickLog, "draw") = 1 /\ Count(tickLog, "perform") = 1)

C10_Witness ==
    /\ pc = "loop"
    /\ tickLog = <<"draw", "perform", "render", "swap", "poll">>
    /\ applied.type = "RESIZE"
    /\ applied = action

\* C11 as stated: within every loop iteration, the first included, events
\* are polled before draw: a draw is preceded by a glfwPollEvents of the same
\* iteration.
C11_PollBeforeDraw ==
    Count(tickLog, "draw") >= 1 => Before(tickLog, "poll", "draw")

TickOrder == <<"draw", "perform", "render", "swap", "poll">>
IsPrefix(s, t) == Len(s) <= Len(t) /\ \A i \in 1..Len(s) : s[i] = t[i]

\* C11 (amended): the steps of a loop iteration occur in the order draw,
\* performAction, interface rendering, buffer swap, glfwPollEvents; no poll
\* precedes the first draw, and every later draw follows the poll that ended
\* the iteration before it.
C11_DrawThenPoll ==
    /\ IsPrefix(tickLog, TickOrder)
    /\ ~everDrew => ~everPolled
    /\ (pc = "draw" /\ everDrew) => everPolled
    /\ (everDrew /\ ~everPolled) => (tickLog # <<>> /\ tickLog[1] = "draw")

C11_Witness ==
    /\ pc = "poll"
    /\ tickLog = <<"draw", "perform", "render", "swap">>
    /\ ~everPolled

\* C12: when glfwPollEvents has reported a framebuffer-size change or a
\* content-scale change, the renderer has been told (resize, rescale) by the
\* time the loop goes on to the next draw.
C12_SizeAndScaleReachRenderer ==
    pc = "loop" =>
        /\ event.kind = "fbsize" => event.renderer = "resize"
        /\ event.kind = "scale" => event.renderer = "rescale"

StartupOrder ==
    <<"glfwInit", "context", "gl3w", "resources", "renderer", "frame", "resizeAndRescale">>

Done(step) == \E i \in 1..Len(startLog) : startLog[i] = step

\* C13: on every run that reaches the loop, GLFW and the OpenGL context are
\* initialised, then the resources are loaded, then the renderer is
\* constructed, then the window geometry is read and given to the renderer
\* with resizeAndRescale, each once and in this order, before the first draw.
C13_StartupOrder ==
    /\ (pc \in {"loop", "draw", "perform", "render", "swap", "poll"} \/ everDrew)
           => startLog = StartupOrder
    /\ IsPrefix(startLog, StartupOrder)
    /\ Done("resources") => resources
    /\ Done("renderer") => renderer # "none"

C13_Witness ==
    /\ pc = "perform"
    /\ tickLog = <<"draw">>
    /\ ~everPolled
    /\ startLog = StartupOrder

\* C15: a performAction call of the loop with FIX_SIZE, FREE_SIZE, QUIT,
\* NONE or an unknown type leaves the frame and the window's monitor as they
\* were; NONE changes neither the window nor the frame; RESIZE leaves the
\* monitor, the resizable attribute and the swap interval as they were; and
\* the window's monitor changes in no step but a performAction(FULLSCREEN).
C15_ActionEffects ==
    [][ /\ (pc = "perform" /\ action.type \in {"FIX_SIZE", "FREE_SIZE", "QUIT", "NONE", "UNKNOWN"})
            => (frame' = frame /\ window'.monitor = window.monitor)
        /\ (pc = "perform" /\ action.type = "NONE")
            => (window' = window /\ frame' = frame)
        /\ (pc = "perform" /\ action.type = "RESIZE")
            => /\ window'.monitor = window.monitor
               /\ window'.resizable = window.resizable
               /\ window'.swapInterval = window.swapInterval
        /\ window'.monitor # window.monitor
            => \/ pc = "perform" /\ action.type = "FULLSCREEN"
               \/ pc = "fullscreen"
      ]_vars

C15_Witness ==
    /\ JustApplied("FIX_SIZE")
    /\ ~window.resizable
    /\ ~window.iconified
    /\ ~window.monitor
    /\ frame # ReadFrame(window)

\* C16: while the size is locked (FIX_SIZE applied, no FREE_SIZE since) the
\* swap interval is 0 and the window is not resizable, whatever else was
\* applied in between.
C16_LockKeepsVsyncOff ==
    locked => (window.swapInterval = 0 /\ ~window.resizable)

\* C17: a key event reaches the renderer (keyPressed) exactly when ImGui does
\* not want the keyboard, and reaches ImGui either way; a scroll event
\* reaches ImGui and never the renderer.
C17_InputGating ==
    /\ event.kind = "key" =>
           /\ event.renderer = "keyPressed" <=> ~event.capture
           /\ event.renderer \in {"keyPressed", "none"}
           /\ event.imgui
    /\ event.kind = "scroll" => (event.renderer = "none" /\ event.imgui)

C17_Witness ==
    /\ pc = "loop"
    /\ event.kind = "key"
    /\ event.capture
    /\ event.renderer = "none"
    /\ event.imgui

\* C18: when main returns after glfwInit succeeded (help, version, window
\* failure, OpenGL loading failure, unsupported OpenGL version, normal end),
\* glfwTerminate has been called.
C18_TerminatedOnExit ==
    (pc = "exited" /\ outcome # "glfw_init") => glfw = "terminated"

\* C14: once the window's close flag is set (by QUIT or by a close request
\* seen by glfwPollEvents) the loop ends and main goes on to renderer.clean(),
\* glfwDestroyWindow and glfwTerminate, provided every call returns; and the
\* loop is not left while the flag is unset.
C14_CloseEndsRun ==
    /\ [][(pc = "loop" /\ pc' # "loop") =>
             (pc' = IF window.shouldClose THEN "cleanup" ELSE "draw")]_vars
    /\ [](pc \in {"cleanup", "destroy", "terminate"} => window.shouldClose)
    /\ (windowState = "open" /\ window.shouldClose)
           ~> (/\ pc = "exited"
               /\ renderer = "cleaned"
               /\ windowState = "destroyed"
               /\ glfw = "terminated")

C14_Witness ==
    /\ pc = "exited"
    /\ outcome = "normal"
    /\ window.shouldClose
    /\ ~quitDrawn
    /\ export = "none"
    /\ everPolled
    /\ renderer = "cleaned"
    /\ windowState = "destroyed"
    /\ glfw = "terminated"

====
